---- MODULE Spec2Model ----
(***************************************************************************)
(* Linear-chain CRF operator of src/CRF.ipynb (class CRF): the transition  *)
(* parameter, path scoring, the forward algorithm, Viterbi decoding, the   *)
(* batched forward() call and the negative log-likelihood loss.            *)
(*                                                                         *)
(* Tags are 0-based as in the source; TLA+ sequences are 1-based, so tag t *)
(* of a row is its element t + 1.  A matrix is a sequence of rows.         *)
(***************************************************************************)
EXTENDS Integers, Sequences, FiniteSets

\* ------------------------------------------------------------------ bounds
MaxTags == 2        \* tag_size ranges over 1..MaxTags
MaxLen == 3         \* sequence length ranges over 0..MaxLen
MaxCells == 13      \* the transition matrix and a call's arguments hold at most MaxCells numbers
MaxBatch == 2       \* a batch holds 0..MaxBatch sequences
ExpRange == 12      \* torch.exp's results are finite and non-zero in 2^-ExpRange..2^ExpRange
BigScore == 20      \* a score of large magnitude: beyond ExpRange

MaxExp == ExpRange
MinExp == 0 - ExpRange

\* The scores the ordinary inputs are drawn from, and those of large magnitude.
SmallScores == {-1, 1}
LargeScores == {0 - BigScore, BigScore}

\* ------------------------------------------------------- floating point
\* torch.exp, torch.sum and torch.log work on floats.  The model keeps the
\* range of the format and drops its rounding: a weight is 0, +inf, or the
\* dyadic number m * 2^e with m odd; exp is taken to base 2, so that the
\* exponential of an integer score is exact.  A result above 2^MaxExp
\* overflows to +inf and one below 2^MinExp underflows to 0, as float32
\* does above e^88.7 and below e^-103.9.  A value of the log domain
\* (a score) is kept as [lg |-> w], standing for log2(w): log2(0) is -inf
\* and log2(+inf) is +inf.

RECURSIVE Pow2(_)
Pow2(n) == IF n <= 0 THEN 1 ELSE 2 * Pow2(n - 1)

RECURSIVE Norm(_, _)
Norm(m, e) ==
    IF m = 0 THEN [inf |-> FALSE, m |-> 0, e |-> 0]
    ELSE IF m % 2 = 0 THEN Norm(m \div 2, e + 1)
    ELSE [inf |-> FALSE, m |-> m, e |-> e]

Zero == [inf |-> FALSE, m |-> 0, e |-> 0]
Inf == [inf |-> TRUE, m |-> 0, e |-> 0]

RECURSIVE FloorLog2(_)
FloorLog2(m) == IF m <= 1 THEN 0 ELSE 1 + FloorLog2(m \div 2)

\* w > 2^k and w < 2^k, for a finite non-zero weight w (m odd)
AbovePow2(w, k) ==
    IF w.m = 1 THEN w.e > k ELSE w.e + FloorLog2(w.m) >= k
BelowPow2(w, k) == w.e + FloorLog2(w.m) < k

\* a float result outside the format: overflow to +inf, underflow to 0
Saturate(w) ==
    IF w.inf \/ w.m = 0 THEN w
    ELSE IF AbovePow2(w, MaxExp) THEN Inf
    ELSE IF BelowPow2(w, MinExp) THEN Zero
    ELSE w

Min2(a, b) == IF a <= b THEN a ELSE b
Max2(a, b) == IF a >= b THEN a ELSE b

\* the exact sum of two finite weights
WPlus(a, b) ==
    IF a.m = 0 THEN b
    ELSE IF b.m = 0 THEN a
    ELSE LET e == Min2(a.e, b.e)
         IN  Norm(a.m * Pow2(a.e - e) + b.m * Pow2(b.e - e), e)

\* a + b as the format computes it (the terms of torch.sum)
WAdd(a, b) == IF a.inf \/ b.inf THEN Inf ELSE Saturate(WPlus(a, b))

\* a <= b on weights
WLeq(a, b) ==
    IF b.inf THEN TRUE
    ELSE IF a.inf THEN FALSE
    ELSE IF a.m = 0 THEN TRUE
    ELSE IF b.m = 0 THEN FALSE
    ELSE LET ha == a.e + FloorLog2(a.m)
             hb == b.e + FloorLog2(b.m)
             e == Min2(a.e, b.e)
         IN  IF ha # hb THEN ha < hb
             ELSE a.m * Pow2(a.e - e) <= b.m * Pow2(b.e - e)

RECURSIVE WSum(_)
WSum(ws) == IF ws = <<>> THEN Zero ELSE WAdd(Head(ws), WSum(Tail(ws)))

\* an integer score as a value of the log domain
Score(n) == [lg |-> [inf |-> FALSE, m |-> 1, e |-> n]]

\* x + n in the log domain, n an integer score (+-inf absorb it)
LAddInt(x, n) ==
    IF x.lg.inf \/ x.lg.m = 0 THEN x
    ELSE [lg |-> [inf |-> FALSE, m |-> x.lg.m, e |-> x.lg.e + n]]

\* torch.exp: the weight of a log-domain value, within the format's range
Exp(x) == Saturate(x.lg)

\* torch.log
Log(w) == [lg |-> w]

LLeq(x, y) == WLeq(x.lg, y.lg)
LFinite(x) == ~x.lg.inf /\ x.lg.m # 0
LZero == Score(0)


\* ------------------------------------------------------------------- state
VARIABLES
    tag_size,      \* self.tag_size
    transition,    \* self.transition: tag_size x tag_size, (i, j) = score of i -> j
    score_set,     \* the scores the caller's matrices are made of
    call,          \* the call in progress or returned: its name and arguments
    result         \* what the call returned or raised

vars == <<tag_size, transition, score_set, call, result>>

Matrices(L, C, S) == [1..L -> [1..C -> S]]

\* ------------------------------------------------------ tensor semantics
\* Python and torch indexing of a dimension of `size` by n: the 1-based
\* position, a negative n counting from the end; 0 stands for IndexError.
PyIndex(n, size) ==
    IF 0 <= n /\ n < size THEN n + 1
    ELSE IF 0 - size <= n /\ n < 0 THEN size + n + 1
    ELSE 0

\* torch broadcasting of two dimensions, and the element a broadcast reads
Broadcastable(a, b) == a = b \/ a = 1 \/ b = 1
Bc(n, size) == IF size = 1 THEN 1 ELSE n

\* torch.max(..., dim): the maximum and the first index holding it
MaxOf(s) == CHOOSE v \in {s[i] : i \in 1..Len(s)} : \A i \in 1..Len(s) : s[i] <= v
ArgMax(s) == CHOOSE i \in 1..Len(s) :
                 s[i] = MaxOf(s) /\ \A j \in 1..(i - 1) : s[j] # MaxOf(s)

RECURSIVE Reverse(_)
Reverse(s) == IF s = <<>> THEN <<>> ELSE Append(Reverse(Tail(s)), Head(s))

\* ---------------------------------------------------- CRF._score_real_path
\* the loop of lines 62-63, from row i (1-based) on
RECURSIVE RealPathLoop(_, _, _, _)
RealPathLoop(emission, tags, i, score) ==
    IF i > Len(emission) THEN [kind |-> "ok", score |-> score]
    ELSE IF i > Len(tags) THEN [kind |-> "IndexError"]
    ELSE LET cur_emission == emission[i]
             e == PyIndex(tags[i], Len(cur_emission))
             a == PyIndex(tags[i - 1], tag_size)
             b == PyIndex(tags[i], tag_size)
         IN  IF e = 0 \/ a = 0 \/ b = 0 THEN [kind |-> "IndexError"]
             ELSE RealPathLoop(emission, tags, i + 1,
                               score + cur_emission[e] + transition[a][b])

_score_real_path(emission, tags) ==
    IF Len(emission) = 0 \/ Len(tags) = 0 THEN [kind |-> "IndexError"]
    ELSE LET e == PyIndex(tags[1], Len(emission[1]))
         IN  IF e = 0 THEN [kind |-> "IndexError"]
             ELSE RealPathLoop(emission, tags, 2, emission[1][e])

\* ----------------------------------------------------- CRF._viterbi_decode
\* ViterbiStep with the transition matrix read as (to, from)
ViterbiStepTransposed(best_scores, cur_emit) ==
    LET K == Max2(Len(best_scores), tag_size)
        C == Max2(Len(cur_emit), tag_size)
        cur_score == [k \in 1..K |-> [j \in 1..C |->
                        best_scores[Bc(k, Len(best_scores))]
                        + cur_emit[Bc(j, Len(cur_emit))]
                        + transition[Bc(j, tag_size)][Bc(k, tag_size)]]]
        column(j) == [k \in 1..K |-> cur_score[k][j]]
    IN  [best_scores |-> [j \in 1..C |-> MaxOf(column(j))],
         previous_idx |-> [j \in 1..C |-> ArgMax(column(j)) - 1]]

\* ViterbiStep without the transition term
ViterbiStepNoTransition(best_scores, cur_emit) ==
    LET K == Max2(Len(best_scores), tag_size)
        C == Max2(Len(cur_emit), tag_size)
        cur_score == [k \in 1..K |-> [j \in 1..C |->
                        best_scores[Bc(k, Len(best_scores))]
                        + cur_emit[Bc(j, Len(cur_emit))]]]
        column(j) == [k \in 1..K |-> cur_score[k][j]]
    IN  [best_scores |-> [j \in 1..C |-> MaxOf(column(j))],
         previous_idx |-> [j \in 1..C |-> ArgMax(column(j)) - 1]]

\* lines 100-101: cur_score[k][j] and its column-wise max / argmax
ViterbiStep(best_scores, cur_emit) ==
    LET K == Max2(Len(best_scores), tag_size)
        C == Max2(Len(cur_emit), tag_size)
        cur_score == [k \in 1..K |-> [j \in 1..C |->
                        best_scores[Bc(k, Len(best_scores))]
                        + cur_emit[Bc(j, Len(cur_emit))]
                        + transition[Bc(k, tag_size)][Bc(j, tag_size)]]]
        column(j) == [k \in 1..K |-> cur_score[k][j]]
    IN  [best_scores |-> [j \in 1..C |-> MaxOf(column(j))],
         previous_idx |-> [j \in 1..C |-> ArgMax(column(j)) - 1]]

\* the loop of lines 99-103, from row i (1-based) on
RECURSIVE ViterbiLoop(_, _, _, _)
ViterbiLoop(emission, i, best_scores, previous) ==
    IF i > Len(emission)
    THEN [kind |-> "ok", best_scores |-> best_scores, previous |-> previous]
    ELSE IF ~Broadcastable(Len(best_scores), tag_size)
            \/ ~Broadcastable(Len(emission[i]), tag_size)
    THEN [kind |-> "RuntimeError"]
    ELSE LET step == ViterbiStep(best_scores, emission[i])
         IN  \* previous[i] = previous_idx: the row is as wide as emission
             IF ~(Len(step.previous_idx) = Len(emission[i])
                  \/ Len(step.previous_idx) = 1)
             THEN [kind |-> "RuntimeError"]
             ELSE ViterbiLoop(emission, i + 1, step.best_scores,
                              Append(previous, step.previous_idx))

\* the loop of lines 111-113: i is the 0-based row, from shape[0] - 1 down to 1
RECURSIVE BackTrack(_, _, _, _)
BackTrack(previous, i, best_idx, best_path) ==
    IF i < 1 THEN best_path
    ELSE LET idx == previous[i + 1][best_idx + 1]
         IN  BackTrack(previous, i - 1, idx, Append(best_path, idx))

_viterbi_decode(emission) ==
    IF Len(emission) = 0 THEN [kind |-> "IndexError"]
    ELSE LET best_scores == emission[1]
             previous == <<[j \in 1..Len(emission[1]) |-> -1]>>
             fwd == ViterbiLoop(emission, 2, best_scores, previous)
         IN  IF fwd.kind # "ok" THEN [kind |-> fwd.kind]
             ELSE LET best_score == MaxOf(fwd.best_scores)
                      best_idx == ArgMax(fwd.best_scores) - 1
                      best_path == BackTrack(fwd.previous, Len(fwd.previous) - 1,
                                             best_idx, <<best_idx>>)
                  IN  [kind |-> "ok", best_score |-> best_score,
                       best_path |-> Reverse(best_path)]

\* ----------------------------------------------------- CRF._score_all_paths
\* AllPathsStep with the sum taken over dim=1 instead of dim=0
AllPathsStepWrongDim(pre_score, cur_emit) ==
    LET K == Max2(Len(pre_score), tag_size)
        C == Max2(Len(cur_emit), tag_size)
        cur_score == [k \in 1..K |-> [j \in 1..C |->
                        LAddInt(LAddInt(pre_score[Bc(k, Len(pre_score))],
                                        cur_emit[Bc(j, Len(cur_emit))]),
                                transition[Bc(k, tag_size)][Bc(j, tag_size)])]]
    IN  [pre_score |-> [k \in 1..K |-> Log(WSum([j \in 1..C |-> Exp(cur_score[k][j])]))],
         args |-> {cur_score[k][j] : k \in 1..K, j \in 1..C}]

\* lines 78-79: cur_score = pre_score.unsqueeze(1) + cur_emit + transition,
\* then log(sum(exp(cur_score), dim=0)); args are the values handed to exp
AllPathsStep(pre_score, cur_emit) ==
    LET K == Max2(Len(pre_score), tag_size)
        C == Max2(Len(cur_emit), tag_size)
        cur_score == [k \in 1..K |-> [j \in 1..C |->
                        LAddInt(LAddInt(pre_score[Bc(k, Len(pre_score))],
                                        cur_emit[Bc(j, Len(cur_emit))]),
                                transition[Bc(k, tag_size)][Bc(j, tag_size)])]]
    IN  [pre_score |-> [j \in 1..C |-> Log(WSum([k \in 1..K |-> Exp(cur_score[k][j])]))],
         args |-> {cur_score[k][j] : k \in 1..K, j \in 1..C}]

\* the loop of lines 77-79, from row i (1-based) on
RECURSIVE AllPathsLoop(_, _, _, _)
AllPathsLoop(emission, i, pre_score, exp_args) ==
    IF i > Len(emission)
    THEN [kind |-> "ok", pre_score |-> pre_score, exp_args |-> exp_args]
    ELSE IF ~Broadcastable(Len(pre_score), tag_size)
            \/ ~Broadcastable(Len(emission[i]), tag_size)
    THEN [kind |-> "RuntimeError"]
    ELSE LET step == AllPathsStep(pre_score, emission[i])
         IN  AllPathsLoop(emission, i + 1, step.pre_score, exp_args \cup step.args)

_score_all_paths(emission) ==
    IF Len(emission) = 0 THEN [kind |-> "IndexError"]
    ELSE LET pre_score == [j \in 1..Len(emission[1]) |-> Score(emission[1][j])]
             fwd == AllPathsLoop(emission, 2, pre_score, {})
         IN  IF fwd.kind # "ok" THEN [kind |-> fwd.kind]
             ELSE [kind |-> "ok",
                   score |-> Log(WSum([j \in 1..Len(fwd.pre_score) |->
                                          Exp(fwd.pre_score[j])])),
                   exp_args |-> fwd.exp_args
                                \cup {fwd.pre_score[j] : j \in 1..Len(fwd.pre_score)}]

\* --------------------------------------------------------- CRF.loss_nll_crf
loss_nll_crf(emissions, tags) ==
    LET all == _score_all_paths(emissions)
        real == _score_real_path(emissions, tags)
    IN  IF all.kind # "ok" THEN [kind |-> all.kind]
        ELSE IF real.kind # "ok" THEN [kind |-> real.kind]
        ELSE [kind |-> "ok", loss |-> LAddInt(all.score, 0 - real.score)]

\* -------------------------------------------------------------- CRF.forward
\* emission[:n, :] for n >= 0
Trim(emission, n) == SubSeq(emission, 1, Min2(n, Len(emission)))

\* the loop of lines 135-139, from sequence i (1-based) on; a raised error
\* carries the number of sequences decoded before it
RECURSIVE BatchLoop(_, _, _, _, _)
BatchLoop(emissions, batch_valid_lens, i, best_scores, best_paths) ==
    IF i > Len(emissions)
    THEN [kind |-> "ok", best_scores |-> best_scores, best_paths |-> best_paths]
    ELSE LET emit == Trim(emissions[i], batch_valid_lens[i])
             one == _viterbi_decode(emit)
         IN  IF one.kind # "ok" THEN [kind |-> one.kind, decoded |-> i - 1]
             ELSE BatchLoop(emissions, batch_valid_lens, i + 1,
                            Append(best_scores, one.best_score),
                            Append(best_paths, one.best_path))

\* forward(emissions): batch_valid_lens is None; dim is emissions.dim()
forward_single(emissions, dim) ==
    IF dim # 2 THEN [kind |-> "AssertionError"]
    ELSE LET one == _viterbi_decode(emissions)
         IN  IF one.kind # "ok" THEN [kind |-> one.kind]
             ELSE [kind |-> "ok", best_scores |-> one.best_score,
                   best_paths |-> one.best_path]

\* forward_batch pairing sequences and valid lengths up to the shorter of
\* the two, in place of the assert of line 132
forward_batch_zip(emissions, batch_valid_lens, return_tensor) ==
    LET n == Min2(Len(emissions), Len(batch_valid_lens))
        all == BatchLoop(SubSeq(emissions, 1, n), batch_valid_lens, 1, <<>>, <<>>)
    IN  IF all.kind # "ok" THEN all
        ELSE IF return_tensor /\ Len(all.best_paths) = 0
        THEN [kind |-> "IndexError", decoded |-> n]
        ELSE [kind |-> "ok", best_scores |-> all.best_scores,
              best_paths |-> all.best_paths]

\* forward(emissions, batch_valid_lens, return_tensor)
forward_batch(emissions, batch_valid_lens, return_tensor) ==
    IF Len(emissions) # Len(batch_valid_lens)
    THEN [kind |-> "AssertionError", decoded |-> 0]
    ELSE LET all == BatchLoop(emissions, batch_valid_lens, 1, <<>>, <<>>)
         IN  IF all.kind # "ok" THEN all
             \* line 143: type(best_paths[0]) of an empty list
             ELSE IF return_tensor /\ Len(all.best_paths) = 0
             THEN [kind |-> "IndexError", decoded |-> Len(emissions)]
             ELSE [kind |-> "ok", best_scores |-> all.best_scores,
                   best_paths |-> all.best_paths]

\* ------------------------------------------------------------ the machine
NoCall == [op |-> "none"]
NoResult == [kind |-> "none"]

TagSizes == 1..MaxTags
\* the shapes (seq_len, columns) of a call's emission matrix, passed with
\* `tagged` tags per row, and the shapes (batch_size, seq_len) of a batch of
\* tag_size columns, passed with n valid lengths
Shapes(tagged) ==
    {sh \in (0..MaxLen) \X (1..MaxTags) :
        tag_size * tag_size + sh[1] * (sh[2] + tagged) <= MaxCells}
BatchShapes == (0..MaxBatch) \X (1..MaxLen)
BatchFits(sh, n) == tag_size * tag_size + sh[1] * sh[2] * tag_size + n <= MaxCells

\* CRF.__init__: the transition parameter is any tag_size x tag_size matrix
InitWith(S) ==
    /\ tag_size \in TagSizes
    /\ transition \in Matrices(tag_size, tag_size, S)
    /\ score_set = S
    /\ call = NoCall
    /\ result = NoResult

Init == InitWith(SmallScores)
InitLarge == InitWith(LargeScores)

\* crf_op(X)
Forward ==
    /\ call = NoCall
    /\ \E sh \in Shapes(0) : \E emissions \in Matrices(sh[1], sh[2], score_set) :
          /\ call' = [op |-> "forward", emissions |-> emissions, dim |-> 2]
          /\ result' = forward_single(emissions, 2)
    /\ UNCHANGED <<tag_size, transition, score_set>>

\* the valid lengths a caller may pass for a batch of N sequences padded to
\* padded_len: n entries from 0 to padded_len + 1 (all alike when n # N)
ValidLens(n, N, padded_len) ==
    IF n = N THEN [1..n -> 0..(padded_len + 1)] ELSE [1..n -> {padded_len}]

\* crf_op(X_batch) without valid lengths, and crf_op(X_batch, batch_valid_lens=...)
ForwardBatch ==
    /\ call = NoCall
    /\ \E sh \in {x \in BatchShapes : BatchFits(x, 0)} :
       \E emissions \in [1..sh[1] -> Matrices(sh[2], tag_size, score_set)] :
          \/ /\ call' = [op |-> "forward", emissions |-> emissions, dim |-> 3]
             /\ result' = forward_single(emissions, 3)
          \/ \E n \in {m \in {sh[1] - 1, sh[1], sh[1] + 1} : m >= 0 /\ BatchFits(sh, m)} :
             \E batch_valid_lens \in ValidLens(n, sh[1], sh[2]) :
             \E return_tensor \in BOOLEAN :
                /\ call' = [op |-> "forward_batch", emissions |-> emissions,
                            padded_len |-> sh[2],
                            batch_valid_lens |-> batch_valid_lens,
                            return_tensor |-> return_tensor]
                /\ result' = forward_batch(emissions, batch_valid_lens, return_tensor)
    /\ UNCHANGED <<tag_size, transition, score_set>>

\* the tags a caller may pass: indices from -1 to tag_size, at most one of
\* them outside 0..tag_size-1
TagSeqs(L) ==
    {tags \in [1..L -> (-1)..tag_size] :
        Cardinality({i \in 1..L : tags[i] < 0 \/ tags[i] >= tag_size}) <= 1}

ScoreRealPath ==
    /\ call = NoCall
    /\ \E sh \in Shapes(1) : \E emission \in Matrices(sh[1], sh[2], score_set) :
       \E tags \in TagSeqs(sh[1]) :
          /\ call' = [op |-> "_score_real_path", emissions |-> emission, tags |-> tags]
          /\ result' = _score_real_path(emission, tags)
    /\ UNCHANGED <<tag_size, transition, score_set>>

ScoreAllPaths ==
    /\ call = NoCall
    /\ \E sh \in Shapes(0) : \E emission \in Matrices(sh[1], sh[2], score_set) :
          /\ call' = [op |-> "_score_all_paths", emissions |-> emission]
          /\ result' = _score_all_paths(emission)
    /\ UNCHANGED <<tag_size, transition, score_set>>

LossNllCrf ==
    /\ call = NoCall
    /\ \E sh \in Shapes(1) : \E emissions \in Matrices(sh[1], sh[2], score_set) :
       \E tags \in TagSeqs(sh[1]) :
          /\ call' = [op |-> "loss_nll_crf", emissions |-> emissions, tags |-> tags]
          /\ result' = loss_nll_crf(emissions, tags)
    /\ UNCHANGED <<tag_size, transition, score_set>>

Next ==
    \/ Forward
    \/ ForwardBatch
    \/ ScoreRealPath
    \/ ScoreAllPaths
    \/ LossNllCrf

Spec == Init /\ [][Next]_vars
SpecLarge == InitLarge /\ [][Next]_vars

\* ================================================================ claims
\* what the claims speak of: the call's emission matrix, its shape, all tag
\* sequences of a length, and the exact total weight of a set of them

SeqLen == Len(call.emissions)
WellShaped(emission) ==
    Len(emission) >= 1 /\ \A i \in 1..Len(emission) : Len(emission[i]) = tag_size
InRange(tags) == \A i \in 1..Len(tags) : 0 <= tags[i] /\ tags[i] < tag_size
Paths(L) == [1..L -> 0..(tag_size - 1)]
PathScore(emission, p) == _score_real_path(emission, p).score
IsValidationError(r) == r.kind = "AssertionError"

RECURSIVE TotalWeight(_, _)
TotalWeight(emission, ps) ==
    IF ps = {} THEN Zero
    ELSE LET p == CHOOSE q \in ps : TRUE
         IN  WPlus(Score(PathScore(emission, p)).lg, TotalWeight(emission, ps \ {p}))

RECURSIVE SumColumn(_, _)
SumColumn(emission, i) ==
    IF i > Len(emission) THEN 0 ELSE emission[i][1] + SumColumn(emission, i + 1)

Decoded == call.op = "forward" /\ call.dim = 2 /\ WellShaped(call.emissions)

\* C1: decode of a well-shaped emission (L >= 1 rows of tag_size columns)
\* returns a path of exactly L tags, each in [0, tag_size) (so never the -1
\* of the backpointer base row), whose score is best_score, and best_score
\* is the maximum of score_real_path over all tag_size^L tag sequences.
C1_DecodeIsBest ==
    Decoded =>
        /\ result.kind = "ok"
        /\ Len(result.best_paths) = SeqLen
        /\ InRange(result.best_paths)
        /\ PathScore(call.emissions, result.best_paths) = result.best_scores
        /\ \A p \in Paths(SeqLen) : PathScore(call.emissions, p) <= result.best_scores

\* a decode of MaxLen rows over two tags whose best path changes tag
C1_Witness ==
    /\ Decoded /\ SeqLen = MaxLen /\ tag_size = 2
    /\ result.kind = "ok"
    /\ \E i \in 2..SeqLen : result.best_paths[i] # result.best_paths[i - 1]

\* C2: score_all_paths of a well-shaped emission is the log of the sum, over
\* all tag_size^L tag sequences, of exp(score_real_path): the forward total
\* weight is the sum over all paths of the product of their weights.
C2_ForwardIsLogSumOverPaths ==
    (call.op = "_score_all_paths" /\ WellShaped(call.emissions)) =>
        /\ result.kind = "ok"
        /\ result.score = Log(TotalWeight(call.emissions, Paths(SeqLen)))

\* a forward pass over MaxLen rows and two tags
C2_Witness ==
    /\ call.op = "_score_all_paths" /\ WellShaped(call.emissions)
    /\ SeqLen = MaxLen /\ tag_size = 2
    /\ result.kind = "ok" /\ LFinite(result.score)

\* C3: the loss of a valid input (well-shaped emission, L tags in range) is
\* never negative, for scores of any magnitude.
C3_LossNonNegative ==
    (/\ call.op = "loss_nll_crf"
     /\ WellShaped(call.emissions)
     /\ Len(call.tags) = SeqLen /\ InRange(call.tags)) =>
        /\ result.kind = "ok"
        /\ LLeq(LZero, result.loss)

BatchCall == call.op = "forward_batch"
BatchSize == Len(call.emissions)
SameSize == Len(call.batch_valid_lens) = BatchSize
ValidBatch ==
    /\ BatchCall /\ SameSize
    /\ \A i \in 1..BatchSize :
          /\ call.batch_valid_lens[i] \in 1..call.padded_len
          /\ WellShaped(call.emissions[i])
BatchMatchesSingle ==
    /\ result.kind = "ok"
    /\ Len(result.best_scores) = BatchSize
    /\ Len(result.best_paths) = BatchSize
    /\ \A i \in 1..BatchSize :
          LET one == _viterbi_decode(Trim(call.emissions[i], call.batch_valid_lens[i]))
          IN  /\ one.kind = "ok"
              /\ result.best_scores[i] = one.best_score
              /\ result.best_paths[i] = one.best_path
              /\ Len(result.best_paths[i]) = call.batch_valid_lens[i]

\* C4: for every batch of N well-shaped sequences with valid lengths in
\* 1..L_max, decode_batch returns N scores and N paths in input order, the
\* i-th being decode of the first valid_lengths[i] rows of sequence i, its
\* path of length valid_lengths[i].
C4_BatchEqualsSingle == ValidBatch => BatchMatchesSingle

\* The same for the batches that hold at least one sequence.
NonEmptyBatchEqualsSingle == (ValidBatch /\ BatchSize >= 1) => BatchMatchesSingle

\* C5: a valid length beyond the padded length ends decode_batch in a
\* validation error; no sequence is decoded at a shortened length.
C5_ValidLenBeyondPaddingRejected ==
    (/\ BatchCall /\ SameSize
     /\ \E i \in 1..BatchSize : call.batch_valid_lens[i] > call.padded_len) =>
        IsValidationError(result)

SingleCall ==
    \/ call.op = "forward" /\ call.dim = 2
    \/ call.op \in {"_score_all_paths", "_score_real_path", "loss_nll_crf"}
HasTags == call.op \in {"_score_real_path", "loss_nll_crf"}

\* C6: a zero-length sequence is rejected with a validation error by every
\* operation: L = 0 in decode, score_all_paths, score_real_path and
\* nll_loss, and a valid length of 0 in decode_batch.
C6_ZeroLengthRejected ==
    (\/ SingleCall /\ SeqLen = 0
     \/ /\ BatchCall /\ SameSize
        /\ \E i \in 1..BatchSize : call.batch_valid_lens[i] = 0) =>
        IsValidationError(result)

\* C7: an emission whose column count differs from tag_size, or a tag outside
\* [0, tag_size), ends decode, score_all_paths, score_real_path and nll_loss
\* in a validation error; no score or path is returned.
C7_ShapeMismatchRejected ==
    (/\ SingleCall /\ SeqLen >= 1
     /\ \/ ~WellShaped(call.emissions)
        \/ HasTags /\ ~InRange(call.tags)) =>
        IsValidationError(result)

\* C8: decode_batch with as many emission matrices as valid lengths or it
\* fails with the validation error before any sequence is decoded, and
\* returns no scores and no paths.
C8_BatchSizeMismatchRejected ==
    (BatchCall /\ ~SameSize) => result = [kind |-> "AssertionError", decoded |-> 0]

\* a batch of MaxBatch sequences with one valid length too few
C8_Witness ==
    /\ BatchCall /\ BatchSize = MaxBatch
    /\ Len(call.batch_valid_lens) = MaxBatch - 1
    /\ result.kind = "AssertionError"

\* C9: score_all_paths hands exp only values <= 0 (the running maximum is
\* subtracted first), and its result is finite for scores of any magnitude.
C9_StableLogSumExp ==
    (call.op = "_score_all_paths" /\ WellShaped(call.emissions)) =>
        /\ result.kind = "ok"
        /\ \A x \in result.exp_args : LLeq(x, LZero)
        /\ LFinite(result.score)

SingleTagDecoded == Decoded /\ tag_size = 1
AllZeroPath == result.best_paths = [i \in 1..SeqLen |-> 0]

\* C10 as stated: with a single tag, decode returns the path [0] * L and
\* best_score is the sum of emission column 0.
C10_SingleTagScoreIsEmissionSum ==
    SingleTagDecoded =>
        /\ result.kind = "ok" /\ AllZeroPath
        /\ result.best_scores = SumColumn(call.emissions, 1)

\* C10 amended: with a single tag, decode returns the path [0] * L and
\* best_score is the sum of emission column 0 plus (L - 1) times
\* transition[0, 0].
C10_SingleTagScoreWithSelfLoops ==
    SingleTagDecoded =>
        /\ result.kind = "ok" /\ AllZeroPath
        /\ result.best_scores =
              SumColumn(call.emissions, 1) + (SeqLen - 1) * transition[1][1]

\* a single-tag decode of MaxLen rows
C10_Witness == SingleTagDecoded /\ SeqLen = MaxLen /\ result.kind = "ok"

====
